---- MODULE Spec2Model ----
(***************************************************************************)
(* A model of src/main.py: the three analysis endpoints of the FastAPI     *)
(* service (analyze_bpm, analyze_key, analyze_structure), the temporary    *)
(* file each one creates for the upload, and the key / structure logic     *)
(* the handlers run on the features librosa returns.                       *)
(*                                                                         *)
(* Numbers.  The code computes in floating point; the model computes the   *)
(* same quantities exactly, as integers or as fractions of integers:       *)
(*   - the Krumhansl profiles are kept times 100;                          *)
(*   - a Pearson correlation is kept as its numerator and the squared      *)
(*     norm of the profile (the chroma's own norm is a common positive     *)
(*     factor of all 24 candidates), or as NaN;                            *)
(*   - a normalised envelope value is a fraction <<num, den>>;             *)
(*   - a time is a number of samples (seconds times sr).                   *)
(***************************************************************************)
EXTENDS Integers, Sequences, FiniteSets, TLC

VARIABLES
    endpoint,          \* which handler serves the request
    pc,                \* the handler's position
    temp_exists,       \* whether the NamedTemporaryFile is on disk
    response,          \* what the client receives
    tempo,             \* analyze_bpm: what beat_track returns
    chroma,            \* analyze_key: the chroma matrix, a sequence of frames
    key_correlations,  \* analyze_key: the list of (correlation, label)
    best_key,          \* analyze_key
    camelot_code,      \* analyze_key
    n_samples,         \* analyze_structure: len(y)
    bass_smooth,       \* analyze_structure: the median-filtered bass energy
    rms_smooth,        \* analyze_structure: the median-filtered RMS
    bass_norm,         \* analyze_structure
    rms_norm,          \* analyze_structure
    segments,          \* analyze_structure
    t,                 \* analyze_structure: the segment loop's variable
    change_points,     \* analyze_structure: change_points_frames still to walk
    last_change,       \* analyze_structure
    filtered_changes,  \* analyze_structure
    args,              \* the arguments of a pure function under check
    result             \* its result

reqVars == <<endpoint, pc, temp_exists, response>>
bpmVars == <<tempo>>
keyVars == <<chroma, key_correlations, best_key, camelot_code>>
structInputs == <<n_samples, bass_smooth, rms_smooth>>
structVars == <<bass_norm, rms_norm, segments, t, change_points,
                last_change, filtered_changes>>
pureVars == <<args, result>>
vars == <<reqVars, bpmVars, keyVars, structInputs, structVars, pureVars>>

----------------------------------------------------------------------------
(* Bounds of the model *)

\* frames of a chroma matrix
MaxFrames == 2
\* the longest track, in half seconds
MaxHalfSeconds == 45
\* jumps of the bass envelope in one track
MaxJumps == 3
\* the steps of the grid of (bass, rms) pairs in [0, 1] x [0, 1]
GridSteps == 100
\* the length and the levels of an envelope given to the normalisation alone
MaxLen == 3
MaxLevel == 4

----------------------------------------------------------------------------
(* Helpers *)

Range(s) == {s[k] : k \in 1..Len(s)}

RECURSIVE Reverse(_)
Reverse(s) == IF s = <<>> THEN <<>> ELSE Append(Reverse(Tail(s)), Head(s))

RECURSIVE SumSeq(_)
SumSeq(s) == IF s = <<>> THEN 0 ELSE Head(s) + SumSeq(Tail(s))

Abs(x) == IF x < 0 THEN -x ELSE x

\* a/b < c/d for a, c >= 0 and b, d > 0, by continued fractions: no product
\* is formed, so nothing leaves the 32-bit integers of TLC
RECURSIVE FracLess(_, _, _, _)
FracLess(a, b, c, d) ==
    IF a \div b # c \div d THEN a \div b < c \div d
    ELSE IF c % d = 0 THEN FALSE
    ELSE IF a % b = 0 THEN TRUE
    ELSE FracLess(d, c % d, b, a % b)

\* p * q < r * s for p, q, r, s >= 0
ProdLess(p, q, r, s) ==
    IF r = 0 \/ s = 0 THEN FALSE
    ELSE IF p = 0 \/ q = 0 THEN TRUE
    ELSE FracLess(p, r, s, q)

----------------------------------------------------------------------------
(* analyze_key: Krumhansl-Schmuckler key detection *)

major_profile == <<635, 223, 348, 233, 438, 409, 252, 519, 239, 366, 229, 288>>
minor_profile == <<633, 268, 352, 538, 260, 353, 254, 475, 398, 269, 334, 317>>

pitches == <<"C", "C#", "D", "D#", "E", "F", "F#", "G", "G#", "A", "A#", "B">>

\* a mutant of Roll: the profile is rotated the other way
RollLeft(profile, i) == [k \in 1..12 |-> profile[((k - 1 + i) % 12) + 1]]

\* np.roll(profile, i): element k of the result is element k - i of the profile
Roll(profile, i) == [k \in 1..12 |-> profile[((k - 1 - i) % 12) + 1]]

\* np.mean(chroma, axis=1), times the number of frames T (the mean itself is
\* ChromaSum / T; the correlation does not change under the positive factor).
\* With no frame at all the mean is NaN; ChromaSum is then all zero and
\* Corrcoef below gives NaN as numpy does.
ChromaSum(c) == [k \in 1..12 |-> SumSeq([f \in 1..Len(c) |-> c[f][k]])]

Dot(v, w) == SumSeq([k \in 1..12 |-> v[k] * w[k]])

\* 12 * 12 times the covariance of v and w, and the variance of v
Cov12(v, w) == 12 * Dot(v, w) - SumSeq(v) * SumSeq(w)
Var12(v) == Cov12(v, v)

NaN == [nan |-> TRUE, num |-> 0, den2 |-> 0]

\* np.corrcoef(v, w)[0, 1] = cov(v, w) / sqrt(var(v) * var(w)); 0/0 = NaN when
\* an operand has no variance.  The defined value is num / sqrt(Var12(v) * den2).
Corrcoef(v, w) ==
    IF Var12(v) = 0 \/ Var12(w) = 0 THEN NaN
    ELSE [nan |-> FALSE, num |-> Cov12(v, w), den2 |-> Var12(w)]

\* a < b on floats: every comparison with NaN is False
CorrLt(a, b) ==
    IF a.nan \/ b.nan THEN FALSE
    ELSE IF a.num < 0 /\ b.num >= 0 THEN TRUE
    ELSE IF a.num >= 0 /\ b.num < 0 THEN FALSE
    ELSE IF a.num >= 0
         THEN ProdLess(a.num * a.num, b.den2, b.num * b.num, a.den2)
         ELSE ProdLess(b.num * b.num, a.den2, a.num * a.num, b.den2)

\* the loop of lines 81-86: for i in range(12), the major then the minor candidate
RECURSIVE Candidates(_, _)
Candidates(v, i) ==
    IF i = 12 THEN <<>>
    ELSE << [corr |-> Corrcoef(v, Roll(major_profile, i)),
             label |-> pitches[i + 1] \o " Major"],
            [corr |-> Corrcoef(v, Roll(minor_profile, i)),
             label |-> pitches[i + 1] \o " Minor"] >>
         \o Candidates(v, i + 1)

\* one insertion of the stable ascending sort: x goes after every element
\* that is not greater than it
RECURSIVE InsertAsc(_, _)
InsertAsc(s, x) ==
    IF s = <<>> THEN <<x>>
    ELSE IF CorrLt(x.corr, s[Len(s)].corr)
         THEN Append(InsertAsc(SubSeq(s, 1, Len(s) - 1), x), s[Len(s)])
         ELSE Append(s, x)

RECURSIVE SortAsc(_)
SortAsc(s) ==
    IF s = <<>> THEN <<>>
    ELSE InsertAsc(SortAsc(SubSeq(s, 1, Len(s) - 1)), s[Len(s)])

\* a mutant of SortDesc: an ascending sort reversed, which reverses the order
\* of equal keys
SortDescUnstable(s) == Reverse(SortAsc(s))

\* list.sort(key=lambda x: x[0], reverse=True): Python reverses the list,
\* sorts it stably in ascending order with <, and reverses it again
SortDesc(s) == Reverse(SortAsc(Reverse(s)))

\* a mutant of camelot_mapping: the alias "Gb Major" sits on the next position
camelot_mapping_typo ==
    ("B Major" :> "1B") @@ ("G# Minor" :> "1A") @@ ("Ab Minor" :> "1A") @@
    ("F# Major" :> "2B") @@ ("Gb Major" :> "3B") @@ ("D# Minor" :> "2A") @@
    ("Eb Minor" :> "2A") @@
    ("C# Major" :> "3B") @@ ("Db Major" :> "3B") @@ ("A# Minor" :> "3A") @@
    ("Bb Minor" :> "3A") @@
    ("G# Major" :> "4B") @@ ("Ab Major" :> "4B") @@ ("F Minor" :> "4A") @@
    ("D# Major" :> "5B") @@ ("Eb Major" :> "5B") @@ ("C Minor" :> "5A") @@
    ("A# Major" :> "6B") @@ ("Bb Major" :> "6B") @@ ("G Minor" :> "6A") @@
    ("F Major" :> "7B") @@ ("D Minor" :> "7A") @@
    ("C Major" :> "8B") @@ ("A Minor" :> "8A") @@
    ("G Major" :> "9B") @@ ("E Minor" :> "9A") @@
    ("D Major" :> "10B") @@ ("B Minor" :> "10A") @@
    ("A Major" :> "11B") @@ ("F# Minor" :> "11A") @@ ("Gb Minor" :> "11A") @@
    ("E Major" :> "12B") @@ ("C# Minor" :> "12A") @@ ("Db Minor" :> "12A")

\* lines 94-130
camelot_mapping ==
    ("B Major" :> "1B") @@ ("G# Minor" :> "1A") @@ ("Ab Minor" :> "1A") @@
    ("F# Major" :> "2B") @@ ("Gb Major" :> "2B") @@ ("D# Minor" :> "2A") @@
    ("Eb Minor" :> "2A") @@
    ("C# Major" :> "3B") @@ ("Db Major" :> "3B") @@ ("A# Minor" :> "3A") @@
    ("Bb Minor" :> "3A") @@
    ("G# Major" :> "4B") @@ ("Ab Major" :> "4B") @@ ("F Minor" :> "4A") @@
    ("D# Major" :> "5B") @@ ("Eb Major" :> "5B") @@ ("C Minor" :> "5A") @@
    ("A# Major" :> "6B") @@ ("Bb Major" :> "6B") @@ ("G Minor" :> "6A") @@
    ("F Major" :> "7B") @@ ("D Minor" :> "7A") @@
    ("C Major" :> "8B") @@ ("A Minor" :> "8A") @@
    ("G Major" :> "9B") @@ ("E Minor" :> "9A") @@
    ("D Major" :> "10B") @@ ("B Minor" :> "10A") @@
    ("A Major" :> "11B") @@ ("F# Minor" :> "11A") @@ ("Gb Minor" :> "11A") @@
    ("E Major" :> "12B") @@ ("C# Minor" :> "12A") @@ ("Db Minor" :> "12A")

\* camelot_mapping.get(best_key, "Unknown")
CamelotGet(label) ==
    IF label \in DOMAIN camelot_mapping THEN camelot_mapping[label] ELSE "Unknown"

----------------------------------------------------------------------------
(* The request: what the three handlers share *)

NoResponse == [status |-> 0, detail |-> "", body |-> <<>>]

\* messages of the exceptions librosa raises on an upload it cannot process
LoadErrors == {"NoBackendError", "Input signal too short"}

\* tempfile.NamedTemporaryFile(delete=False, suffix=suffix): the file is on disk
CreateTemp ==
    /\ pc = "start"
    /\ temp_exists' = TRUE
    /\ pc' = "copy"
    /\ UNCHANGED <<endpoint, response, bpmVars, keyVars, structInputs, structVars, pureVars>>

\* shutil.copyfileobj(file.file, temp_file), before the try statement: an
\* exception here (a failed read of the upload, a full disk) leaves the
\* handler at once, and the server answers 500 on its own
CopyUpload ==
    /\ pc = "copy"
    /\ \/ /\ pc' = "try"
          /\ UNCHANGED response
       \/ /\ pc' = "done"
          /\ response' = [status |-> 500, detail |-> "Internal Server Error", body |-> <<>>]
    /\ UNCHANGED <<endpoint, temp_exists, bpmVars, keyVars, structInputs, structVars, pureVars>>

\* librosa.load(temp_path) and the feature extraction that follows it, inside
\* the try statement: they return the features, or raise and the except
\* clause turns the exception into HTTPException(500, "Error processing file: ...")
Load ==
    /\ pc = "try"
    /\ \/ /\ pc' = "analyze"
          /\ UNCHANGED response
       \/ \E msg \in LoadErrors :
            /\ pc' = "finally"
            /\ response' = [status |-> 500,
                            detail |-> "Error processing file: " \o msg,
                            body |-> <<>>]
    /\ UNCHANGED <<endpoint, temp_exists, bpmVars, keyVars, structInputs, structVars, pureVars>>

\* finally: if os.path.exists(temp_path): os.remove(temp_path)
Finally ==
    /\ pc = "finally"
    /\ temp_exists' = FALSE
    /\ pc' = "done"
    /\ UNCHANGED <<endpoint, response, bpmVars, keyVars, structInputs, structVars, pureVars>>

----------------------------------------------------------------------------
(* analyze_key, step by step *)

\* lines 75-86
KeyCorrelate ==
    /\ endpoint = "key" /\ pc = "analyze"
    /\ key_correlations' = Candidates(ChromaSum(chroma), 0)
    /\ pc' = "sort"
    /\ UNCHANGED <<endpoint, temp_exists, response, bpmVars, chroma, best_key,
                   camelot_code, structInputs, structVars, pureVars>>

\* lines 89-90
KeySort ==
    /\ endpoint = "key" /\ pc = "sort"
    /\ key_correlations' = SortDesc(key_correlations)
    /\ best_key' = key_correlations'[1].label
    /\ pc' = "camelot"
    /\ UNCHANGED <<endpoint, temp_exists, response, bpmVars, chroma,
                   camelot_code, structInputs, structVars, pureVars>>

\* lines 132-138
KeyCamelot ==
    /\ endpoint = "key" /\ pc = "camelot"
    /\ camelot_code' = CamelotGet(best_key)
    /\ response' = [status |-> 200, detail |-> "", body |-> <<best_key, camelot_code'>>]
    /\ pc' = "finally"
    /\ UNCHANGED <<endpoint, temp_exists, bpmVars, chroma, key_correlations,
                   best_key, structInputs, structVars, pureVars>>

\* a chroma frame with equal weight on the pitch classes of S
NoteFrame(S) == [k \in 1..12 |-> IF (k - 1) \in S THEN 1 ELSE 0]

\* the frames the inputs are made of: silence, one pitch class, a major triad,
\* every pitch class equally.  Two frames add up to any pair of pitch classes.
FrameSet ==
    {NoteFrame({})} \cup {NoteFrame({i}) : i \in 0..11}
    \cup {NoteFrame({i, (i + 4) % 12, (i + 7) % 12}) : i \in 0..11}
    \cup {NoteFrame(0..11)}

ChromaInputs == UNION {[1..T -> FrameSet] : T \in 1..MaxFrames}

IdleBpm == tempo = [is_array |-> FALSE, data |-> <<>>, scalar |-> 0]
IdleKey ==
    /\ chroma = <<>> /\ key_correlations = <<>> /\ best_key = "" /\ camelot_code = ""
IdleStructInputs == n_samples = 0 /\ bass_smooth = <<>> /\ rms_smooth = <<>>
IdleStruct ==
    /\ bass_norm = <<>> /\ rms_norm = <<>> /\ segments = <<>> /\ t = 0
    /\ change_points = <<>> /\ last_change = 0
    /\ filtered_changes = <<>>
IdlePure == args = <<>> /\ result = <<>>
StartRequest == pc = "start" /\ temp_exists = FALSE /\ response = NoResponse

InitKey ==
    /\ endpoint = "key"
    /\ StartRequest
    /\ chroma \in ChromaInputs
    /\ key_correlations = <<>> /\ best_key = "" /\ camelot_code = ""
    /\ IdleBpm /\ IdleStructInputs /\ IdleStruct /\ IdlePure

NextKey == CreateTemp \/ CopyUpload \/ Load \/ KeyCorrelate \/ KeySort \/ KeyCamelot \/ Finally

SpecKey == InitKey /\ [][NextKey]_vars

----------------------------------------------------------------------------
(* analyze_structure: frame geometry *)

\* librosa.load(temp_path, sr=22050)
sr == 22050
hop_length == 512
sample_rate_sec == 5

\* the length of rms, of the columns of S and so of bass_norm: librosa pads
\* the signal (center=True), so len(y) samples give 1 + len(y) // hop_length frames
NumFrames(n) == 1 + n \div hop_length

\* a mutant of IntDuration: the bound rounded up, so that every t < duration is sampled
CeilDuration(n) == (n + sr - 1) \div sr

\* int(duration), with duration = librosa.get_duration(y=y, sr=sr) = len(y) / sr
IntDuration(n) == n \div sr

\* librosa.time_to_frames(t, sr=sr, hop_length=hop_length) = floor(t * sr / hop_length)
TimeToFrames(sec) == (sec * sr) \div hop_length

\* librosa.frames_to_time(frame, sr=sr, hop_length=hop_length) = frame * hop_length / sr,
\* kept in samples (seconds times sr)
FramesToTime(frame) == frame * hop_length

\* round(num / den, 2) in hundredths: Python rounds to the nearest, ties to even
Round2(num, den) ==
    LET q == (100 * num) \div den
        r == (100 * num) % den
    IN  IF 2 * r < den THEN q
        ELSE IF 2 * r > den THEN q + 1
        ELSE IF q % 2 = 0 THEN q ELSE q + 1

----------------------------------------------------------------------------
(* analyze_structure: envelopes *)

(* An envelope has one value per frame.  The model keeps it run-length       *)
(* encoded: a sequence of pieces [start, level], the first at frame 0, the   *)
(* starts increasing, each piece holding its level up to the next start.     *)
(* A normalised level is a fraction <<num, den>>.                            *)

\* envelope[idx]
At(env, idx) ==
    LET k == CHOOSE j \in 1..Len(env) :
                 /\ env[j].start <= idx
                 /\ (j < Len(env) => env[j + 1].start > idx)
    IN  env[k].level

MaxOf(xs) == CHOOSE m \in Range(xs) : \A x \in Range(xs) : x <= m
MinOf(xs) == CHOOSE m \in Range(xs) : \A x \in Range(xs) : m <= x

\* a mutant of Normalize: min-max scaling, all zeros for a constant input
NormalizeMinMax(xs) ==
    LET lo == MinOf(xs)
        hi == MaxOf(xs)
    IN  [k \in 1..Len(xs) |-> IF hi = lo THEN <<0, 1>> ELSE <<xs[k] - lo, hi - lo>>]

\* librosa.util.normalize(x) with its defaults (norm=np.inf, threshold=None,
\* fill=None): x / max(|x|), and x itself when max(|x|) is below the smallest
\* positive float, which for the integer levels of the model is max(|x|) = 0
Normalize(xs) ==
    LET length == MaxOf([k \in 1..Len(xs) |-> Abs(xs[k])])
    IN  [k \in 1..Len(xs) |-> <<xs[k], IF length = 0 THEN 1 ELSE length>>]

\* the same on a run-length encoded envelope
NormalizeEnvelope(env) ==
    LET n == Normalize([k \in 1..Len(env) |-> env[k].level])
    IN  [k \in 1..Len(env) |-> [start |-> env[k].start, level |-> n[k]]]

----------------------------------------------------------------------------
(* analyze_structure: segments *)

\* a mutant of SegmentLabel: the comparisons are not strict
SegmentLabelNotStrict(b_val, r_val) ==
    IF 10 * b_val[1] >= 6 * b_val[2] THEN "High Energy (Drop/Chorus)"
    ELSE IF 10 * b_val[1] <= 3 * b_val[2] /\ 10 * r_val[1] >= 3 * r_val[2]
         THEN "Breakdown/Build"
    ELSE IF 10 * b_val[1] <= 2 * b_val[2] /\ 10 * r_val[1] <= 2 * r_val[2]
         THEN "Quiet/Intro/Outro"
    ELSE "Verse/Mid Energy"

\* lines 208-216; b_val > 0.6 is 10 num > 6 den
SegmentLabel(b_val, r_val) ==
    IF 10 * b_val[1] > 6 * b_val[2] THEN "High Energy (Drop/Chorus)"
    ELSE IF 10 * b_val[1] < 3 * b_val[2] /\ 10 * r_val[1] > 3 * r_val[2]
         THEN "Breakdown/Build"
    ELSE IF 10 * b_val[1] < 2 * b_val[2] /\ 10 * r_val[1] < 2 * r_val[2]
         THEN "Quiet/Intro/Outro"
    ELSE "Verse/Mid Energy"

\* lines 218-223
Segment(sec, b_val, r_val) ==
    [time |-> sec,
     label |-> SegmentLabel(b_val, r_val),
     bass_level |-> Round2(b_val[1], b_val[2]),
     energy_level |-> Round2(r_val[1], r_val[2])]

----------------------------------------------------------------------------
(* analyze_structure: mix points *)

\* |a - b| > 0.3 for two fractions
JumpOver(a, b) == 10 * Abs(a[1] * b[2] - b[1] * a[2]) > 3 * a[2] * b[2]

\* np.where(np.abs(np.diff(bass_norm)) > 0.3)[0]: the frames f with
\* |bass_norm[f + 1] - bass_norm[f]| > 0.3, ascending.  The envelope changes
\* only where a piece starts, at f + 1 = start.
RECURSIVE ChangeFrames(_, _)
ChangeFrames(env, k) ==
    IF k > Len(env) THEN <<>>
    ELSE (IF JumpOver(env[k].level, env[k - 1].level)
          THEN <<env[k].start - 1>> ELSE <<>>)
         \o ChangeFrames(env, k + 1)

\* a mutant of Keeps: the gap is taken in samples, the window in seconds
KeepsNoUnit(cp, last) == cp - last > 10

\* cp - last_change > 10, both in samples
Keeps(cp, last) == cp - last > 10 * sr

\* a mutant of NextLastChange: a suppressed candidate moves the window too
NextLastChangeAlways(cp, last) == cp

\* last_change after the candidate cp
NextLastChange(cp, last) == IF Keeps(cp, last) THEN cp ELSE last

----------------------------------------------------------------------------
(* analyze_structure, step by step *)

\* lines 182-183
StructNormalize ==
    /\ endpoint = "structure" /\ pc = "analyze"
    /\ bass_norm' = NormalizeEnvelope(bass_smooth)
    /\ rms_norm' = NormalizeEnvelope(rms_smooth)
    /\ segments' = <<>>
    /\ t' = 0
    /\ pc' = "segments"
    /\ UNCHANGED <<endpoint, temp_exists, response, bpmVars, keyVars, structInputs,
                   change_points, last_change, filtered_changes, pureVars>>

\* lines 200-223: one turn of the loop over range(0, int(duration), 5), or its end
SegmentStep ==
    /\ endpoint = "structure" /\ pc = "segments"
    /\ IF t < IntDuration(n_samples) /\ TimeToFrames(t) < NumFrames(n_samples)
       THEN /\ segments' = Append(segments,
                                  Segment(t, At(bass_norm, TimeToFrames(t)),
                                          At(rms_norm, TimeToFrames(t))))
            /\ t' = t + sample_rate_sec
            /\ pc' = "segments"
       ELSE /\ pc' = "diff"
            /\ UNCHANGED <<segments, t>>
    /\ UNCHANGED <<endpoint, temp_exists, response, bpmVars, keyVars, structInputs,
                   bass_norm, rms_norm, change_points, last_change,
                   filtered_changes, pureVars>>

\* lines 228-235
StructDiff ==
    /\ endpoint = "structure" /\ pc = "diff"
    /\ change_points' = ChangeFrames(bass_norm, 2)
    /\ filtered_changes' = <<>>
    /\ last_change' = -100 * sr
    /\ pc' = "filter"
    /\ UNCHANGED <<endpoint, temp_exists, response, bpmVars, keyVars, structInputs,
                   bass_norm, rms_norm, segments, t, pureVars>>

\* lines 236-239: one turn of the loop over change_points_times
FilterStep ==
    /\ endpoint = "structure" /\ pc = "filter"
    /\ change_points # <<>>
    /\ LET cp == FramesToTime(Head(change_points))
       IN  /\ filtered_changes' =
                IF Keeps(cp, last_change)
                THEN Append(filtered_changes, Round2(cp, sr))
                ELSE filtered_changes
           /\ last_change' = NextLastChange(cp, last_change)
    /\ change_points' = Tail(change_points)
    /\ UNCHANGED <<endpoint, pc, temp_exists, response, bpmVars, keyVars, structInputs,
                   bass_norm, rms_norm, segments, t, pureVars>>

\* lines 241-246
StructReturn ==
    /\ endpoint = "structure" /\ pc = "filter"
    /\ change_points = <<>>
    /\ response' = [status |-> 200, detail |-> "",
                    body |-> <<Round2(n_samples, sr), filtered_changes, segments>>]
    /\ pc' = "finally"
    /\ UNCHANGED <<endpoint, temp_exists, bpmVars, keyVars, structInputs, structVars,
                   pureVars>>

----------------------------------------------------------------------------
(* analyze_structure: the inputs *)

RECURSIVE SetToSeq(_)
SetToSeq(S) ==
    IF S = {} THEN <<>>
    ELSE LET m == CHOOSE x \in S : \A y \in S : x <= y
         IN  <<m>> \o SetToSeq(S \ {m})

\* the frames after which the bass envelope may change: the start, 2 s, 5 s,
\* the last frame within 10 s of the 2 s frame and the first one beyond, 20 s
JumpFrames ==
    {0, TimeToFrames(2), TimeToFrames(5),
     TimeToFrames(2) + TimeToFrames(10), TimeToFrames(2) + TimeToFrames(10) + 1,
     TimeToFrames(20)}

BassLevels == {0, 1, 4}

\* the envelope that changes after the frames of J, with levels lv
EnvelopeOf(J, lv) ==
    LET f == SetToSeq(J)
    IN  [k \in 1..(Len(f) + 1) |->
            [start |-> IF k = 1 THEN 0 ELSE f[k - 1] + 1, level |-> lv[k]]]

BassInputs(n) ==
    UNION { { EnvelopeOf(J, lv) :
                lv \in {l \in [1..(Cardinality(J) + 1) -> BassLevels] :
                           \A k \in 1..Cardinality(J) : l[k] # l[k + 1]} } :
            J \in {X \in SUBSET JumpFrames :
                      /\ Cardinality(X) <= MaxJumps
                      /\ \A f \in X : f + 1 < NumFrames(n)} }

\* the RMS envelope: steady, or rising halfway
RmsInputs(n) ==
    { <<[start |-> 0, level |-> 2]>> }
    \cup (IF NumFrames(n) > 1
          THEN { <<[start |-> 0, level |-> 1],
                   [start |-> NumFrames(n) \div 2, level |-> 4]>> }
          ELSE {})

Silence == <<[start |-> 0, level |-> 0]>>

InitStructure ==
    /\ endpoint = "structure"
    /\ StartRequest
    /\ n_samples \in {h * (sr \div 2) : h \in 1..MaxHalfSeconds}
    /\ \/ bass_smooth \in BassInputs(n_samples) /\ rms_smooth \in RmsInputs(n_samples)
       \/ bass_smooth = Silence /\ rms_smooth = Silence
    /\ IdleStruct
    /\ IdleBpm /\ IdleKey /\ IdlePure

NextStructure ==
    \/ CreateTemp \/ CopyUpload \/ Load \/ Finally
    \/ StructNormalize \/ SegmentStep \/ StructDiff \/ FilterStep \/ StructReturn

SpecStructure == InitStructure /\ [][NextStructure]_vars


----------------------------------------------------------------------------
(* analyze_bpm *)

\* what librosa.beat.beat_track returns as tempo, in thousandths of a BPM: a
\* one-element array or a scalar, depending on the librosa version
Tempos == {0, 117454, 120185, 129199}

\* line 40: tempo[0] if isinstance(tempo, np.ndarray) else tempo
Bpm(tp) == IF tp.is_array THEN tp.data[1] ELSE tp.scalar

\* lines 33-45
BpmAnalyze ==
    /\ endpoint = "bpm" /\ pc = "analyze"
    /\ response' = [status |-> 200, detail |-> "", body |-> <<Round2(Bpm(tempo), 1000)>>]
    /\ pc' = "finally"
    /\ UNCHANGED <<endpoint, temp_exists, bpmVars, keyVars, structInputs, structVars,
                   pureVars>>

InitBpm ==
    /\ endpoint = "bpm"
    /\ StartRequest
    /\ tempo \in {[is_array |-> TRUE, data |-> <<v>>, scalar |-> 0] : v \in Tempos}
                 \cup {[is_array |-> FALSE, data |-> <<>>, scalar |-> v] : v \in Tempos}
    /\ IdleKey /\ IdleStructInputs /\ IdleStruct /\ IdlePure

----------------------------------------------------------------------------
(* The service: one request to one of the three endpoints *)

Init == InitBpm \/ InitKey \/ InitStructure

Next ==
    \/ CreateTemp \/ CopyUpload \/ Load \/ Finally
    \/ BpmAnalyze
    \/ KeyCorrelate \/ KeySort \/ KeyCamelot
    \/ StructNormalize \/ SegmentStep \/ StructDiff \/ FilterStep \/ StructReturn

Spec == Init /\ [][Next]_vars

----------------------------------------------------------------------------
(* The pure functions, each applied to inputs drawn from a bounded set *)

NoRequest == temp_exists = FALSE /\ response = NoResponse

\* SegmentLabel on every pair of the grid
InitLabel ==
    /\ endpoint = "SegmentLabel" /\ pc = "call" /\ NoRequest
    /\ args \in (0..GridSteps) \X (0..GridSteps)
    /\ result = <<>>
    /\ IdleBpm /\ IdleKey /\ IdleStructInputs /\ IdleStruct

ApplyLabel ==
    /\ endpoint = "SegmentLabel" /\ pc = "call"
    /\ result' = <<SegmentLabel(<<args[1], GridSteps>>, <<args[2], GridSteps>>)>>
    /\ pc' = "return"
    /\ UNCHANGED <<endpoint, temp_exists, response, bpmVars, keyVars, structInputs,
                   structVars, args>>

SpecLabel == InitLabel /\ [][ApplyLabel]_vars

\* Normalize on every short envelope of small levels
InitNormalize ==
    /\ endpoint = "Normalize" /\ pc = "call" /\ NoRequest
    /\ args \in UNION {[1..n -> 0..MaxLevel] : n \in 1..MaxLen}
    /\ result = <<>>
    /\ IdleBpm /\ IdleKey /\ IdleStructInputs /\ IdleStruct

ApplyNormalize ==
    /\ endpoint = "Normalize" /\ pc = "call"
    /\ result' = Normalize(args)
    /\ pc' = "return"
    /\ UNCHANGED <<endpoint, temp_exists, response, bpmVars, keyVars, structInputs,
                   structVars, args>>

SpecNormalize == InitNormalize /\ [][ApplyNormalize]_vars

\* CamelotGet on two labels, each a pitch name and a mode name: the sharp
\* spellings of pitches, the flat spellings, and names that are no key
FlatOf == ("C#" :> "Db") @@ ("D#" :> "Eb") @@ ("F#" :> "Gb") @@ ("G#" :> "Ab")
          @@ ("A#" :> "Bb")

PitchNames == Range(pitches) \cup {FlatOf[x] : x \in DOMAIN FlatOf} \cup {"H"}
ModeNames == {"Major", "Minor", "major"}

InitCamelot ==
    /\ endpoint = "CamelotGet" /\ pc = "call" /\ NoRequest
    /\ args \in PitchNames \X ModeNames \X PitchNames \X ModeNames
    /\ result = <<>>
    /\ IdleBpm /\ IdleKey /\ IdleStructInputs /\ IdleStruct

ApplyCamelot ==
    /\ endpoint = "CamelotGet" /\ pc = "call"
    /\ result' = <<CamelotGet(args[1] \o " " \o args[2]),
                   CamelotGet(args[3] \o " " \o args[4])>>
    /\ pc' = "return"
    /\ UNCHANGED <<endpoint, temp_exists, response, bpmVars, keyVars, structInputs,
                   structVars, args>>

SpecCamelot == InitCamelot /\ [][ApplyCamelot]_vars

----------------------------------------------------------------------------
(* Claims about analyze_key *)

\* the 24 candidates in the order the loop appends them
Enumerated == Candidates(ChromaSum(chroma), 0)

\* the place of a label in the enumeration en
EnumIndex(en, label) == CHOOSE k \in 1..24 : en[k].label = label

\* the handler has just ranked the candidates and taken the first
Ranked == endpoint = "key" /\ pc = "camelot"

\* the handler has answered with a key
AnsweredKey == endpoint = "key" /\ pc = "done" /\ response.status = 200

SameCorr(a, b) == ~CorrLt(a, b) /\ ~CorrLt(b, a)

\* C7: an undefined correlation is never ranked above a defined one and is
\* never the chosen key; when all 24 correlations are undefined the request
\* fails (DegenerateSignal) and carries no key label and no Camelot code.
C7_UndefinedNeverChosen ==
    (endpoint = "key" /\ pc = "done" /\ Len(key_correlations) = 24) =>
        /\ \A p, q \in 1..24 :
              (p < q /\ key_correlations[p].corr.nan) => key_correlations[q].corr.nan
        /\ response.status = 200 => ~key_correlations[1].corr.nan
        /\ (\A k \in 1..24 : key_correlations[k].corr.nan) =>
              (response.status = 500 /\ response.body = <<>>)

\* C8: the returned key has the maximum correlation of the 24 candidates, and
\* among the candidates that share the maximum it is the first one in the
\* enumeration order C Major, C Minor, C# Major, ..., B Minor; in the ranked
\* list candidates of equal correlation keep their enumeration order.  (The
\* correlations are defined: the chroma has some variance.)
C8_MaxAndFirstOfTies ==
    /\ AnsweredKey => response.body[1] = best_key /\ key_correlations[1].label = best_key
    /\ Ranked =>
        LET en == Enumerated
            best == EnumIndex(en, best_key)
            place == [p \in 1..24 |-> EnumIndex(en, key_correlations[p].label)]
        IN  (\A k \in 1..24 : ~en[k].corr.nan) =>
            /\ \A k \in 1..24 : ~CorrLt(en[best].corr, en[k].corr)
            /\ \A k \in 1..24 : SameCorr(en[k].corr, en[best].corr) => best <= k
            /\ \A p, q \in 1..24 :
                  p < q =>
                      /\ ~CorrLt(key_correlations[p].corr, key_correlations[q].corr)
                      /\ SameCorr(key_correlations[p].corr, key_correlations[q].corr)
                            => place[p] < place[q]

\* C8's case: two candidates share the maximum and the handler has answered
C8_Witness ==
    /\ AnsweredKey
    /\ LET en == Enumerated
           best == EnumIndex(en, best_key)
       IN  /\ \A k \in 1..24 : ~en[k].corr.nan
           /\ \E k \in 1..24 : k # best /\ SameCorr(en[k].corr, en[best].corr)

\* the chroma matrix is T >= 1 frames of the major triad on pitch index i
IsTriadChroma(i) ==
    /\ Len(chroma) >= 1
    /\ \A f \in 1..Len(chroma) : chroma[f] = NoteFrame({i, (i + 4) % 12, (i + 7) % 12})

\* the Camelot wheel (spec 4.2): the major key on pitch index i sits at
\* position ((7 i + 7) mod 12) + 1, with the letter B
WheelMajor(i) == ToString(((7 * i + 7) % 12) + 1) \o "B"

\* C9: a chroma matrix with equal weight on the three pitch classes of the
\* major triad on pitch index i is detected as "{Pitch[i]} Major" with that
\* key's Camelot code, for every i; for i = 0, "C Major" and "8B".
C9_MajorTriadDetected ==
    \A i \in 0..11 :
        (endpoint = "key" /\ pc \in {"finally", "done"} /\ response.status = 200
            /\ IsTriadChroma(i)) =>
            /\ best_key = pitches[i + 1] \o " Major"
            /\ camelot_code = WheelMajor(i)
            /\ response.body = <<best_key, camelot_code>>
            /\ (i = 0 => best_key = "C Major" /\ camelot_code = "8B")

\* C9's case: two frames of the C major triad, answered
C9_Witness ==
    /\ AnsweredKey
    /\ Len(chroma) = 2
    /\ IsTriadChroma(0)
    /\ response.body = <<"C Major", "8B">>

----------------------------------------------------------------------------
(* Claims about analyze_structure *)

\* the structure handler has answered
AnsweredStructure == endpoint = "structure" /\ pc = "done" /\ response.status = 200

\* the candidate times, in samples, in ascending order
CandidateTimes ==
    LET f == ChangeFrames(bass_norm, 2)
    IN  [k \in 1..Len(f) |-> f[k] * hop_length]

\* C1: the mix-point list is strictly increasing and two consecutive reported
\* times differ by at least the 10 s window (1000 hundredths), also after the
\* rounding to 2 decimals; this holds of the list while it is built and of
\* the list in the response.
C1_MixPointsDebounced ==
    /\ \A k \in 1..(Len(filtered_changes) - 1) :
          filtered_changes[k + 1] - filtered_changes[k] >= 10 * 100
    /\ AnsweredStructure => response.body[2] = filtered_changes

\* C1's case: a candidate was suppressed, and two reported times are exactly
\* 10.00 s apart after rounding (1.997 s and 12.005 s, reported 2.0 and 12.0)
C1_Witness ==
    /\ AnsweredStructure
    /\ Len(ChangeFrames(bass_norm, 2)) > Len(filtered_changes)
    /\ \E k \in 1..(Len(filtered_changes) - 1) :
          filtered_changes[k + 1] - filtered_changes[k] = 10 * 100

\* the greedy selection from left to right: a time is kept exactly when it
\* exceeds the last kept time by more than 10 s
RECURSIVE Greedy(_, _)
Greedy(times, lastKept) ==
    IF times = <<>> THEN <<>>
    ELSE IF Head(times) - lastKept > 10 * sr
         THEN <<Head(times)>> \o Greedy(Tail(times), Head(times))
         ELSE Greedy(Tail(times), lastKept)

InHundredths(times) == [k \in 1..Len(times) |-> Round2(times[k], sr)]

\* C2: the reported list is the greedy left-to-right selection over the
\* candidates, starting from lastKept = -100 s: a candidate is kept exactly
\* when it is more than 10 s after the last kept one, the first candidate is
\* always kept, and the candidates at 2 s, 5 s and 20 s give the first and
\* the third.
C2_GreedySelection ==
    (endpoint = "structure" /\ pc \in {"finally", "done"} /\ response.status = 200) =>
        LET times == CandidateTimes
        IN  /\ filtered_changes = InHundredths(Greedy(times, -100 * sr))
            /\ times # <<>> => filtered_changes[1] = Round2(times[1], sr)
            /\ ChangeFrames(bass_norm, 2)
                   = <<TimeToFrames(2), TimeToFrames(5), TimeToFrames(20)>>
                 => filtered_changes = <<Round2(times[1], sr), Round2(times[3], sr)>>

\* C2's case: candidates at the frames of 2 s, 5 s and 20 s; the 5 s one is suppressed
C2_Witness ==
    /\ AnsweredStructure
    /\ ChangeFrames(bass_norm, 2) = <<TimeToFrames(2), TimeToFrames(5), TimeToFrames(20)>>
    /\ filtered_changes = <<200, 1999>>

\* the segment loop has ended
SegmentsDone ==
    endpoint = "structure" /\ pc \in {"diff", "filter", "finally", "done"}
    /\ bass_norm # <<>>

SegmentTimes == [k \in 1..Len(segments) |-> segments[k].time]

\* C4 as stated: one segment for each t = 0, 5, 10, ... strictly less than
\* the duration, also a duration that is no whole number of seconds, in
\* increasing order, up to the first t whose frame index is not in the envelope.
C4_EveryTimeBelowDuration ==
    SegmentsDone =>
        /\ \A j \in 0..MaxHalfSeconds :
              (\E k \in 1..Len(segments) : segments[k].time = sample_rate_sec * j)
                  <=> /\ sample_rate_sec * j * sr < n_samples
                      /\ \A i \in 0..j : TimeToFrames(sample_rate_sec * i)
                                             < NumFrames(n_samples)
        /\ \A k \in 1..Len(segments) : segments[k].time = sample_rate_sec * (k - 1)

\* C4, amended: one segment for each t = 0, 5, 10, ... with t + 1 <= duration
\* (t below the whole seconds of the duration), in increasing order, each
\* read at frame floor(t * sr / hop_length), which lies in the envelope.
C4_EveryTimeBelowWholeSeconds ==
    SegmentsDone =>
        /\ \A j \in 0..MaxHalfSeconds :
              (\E k \in 1..Len(segments) : segments[k].time = sample_rate_sec * j)
                  <=> (sample_rate_sec * j + 1) * sr <= n_samples
        /\ \A k \in 1..Len(segments) :
              LET sec == sample_rate_sec * (k - 1)
                  idx == TimeToFrames(sec)
              IN  /\ segments[k].time = sec
                  /\ idx * hop_length <= sec * sr /\ sec * sr < (idx + 1) * hop_length
                  /\ idx < NumFrames(n_samples)
                  /\ segments[k].bass_level
                        = Round2(At(bass_norm, idx)[1], At(bass_norm, idx)[2])
                  /\ segments[k].energy_level
                        = Round2(At(rms_norm, idx)[1], At(rms_norm, idx)[2])

\* C4's case: a track of 5.5 s, answered with the one segment at t = 0
C4_Witness ==
    /\ AnsweredStructure
    /\ 2 * n_samples = 11 * sr
    /\ SegmentTimes = <<0>>
    /\ response.body[3] = segments

----------------------------------------------------------------------------
(* Claims about the pure functions *)

Labels4 ==
    {"High Energy (Drop/Chorus)", "Breakdown/Build", "Quiet/Intro/Outro",
     "Verse/Mid Energy"}

\* C3: for every pair (bass, rms) of the grid the label is the one of the
\* first matching clause: bass > 0.6 HighEnergy; else bass < 0.3 and
\* rms > 0.3 BreakdownBuild; else bass < 0.2 and rms < 0.2 QuietIntroOutro;
\* else VerseMid.  It is one of the four labels, never "Unknown"; bass = 0.6
\* and bass = 0.3 give VerseMid, and so does rms = 0.3 unless bass > 0.6; the
\* pairs (0.7, any), (0.1, 0.4), (0.1, 0.1), (0.45, 0.5) give HighEnergy,
\* BreakdownBuild, QuietIntroOutro, VerseMid.
C3_FirstMatchingClause ==
    (endpoint = "SegmentLabel" /\ pc = "return") =>
        LET b == args[1]
            r == args[2]
            g == GridSteps
            label == result[1]
            high == 10 * b > 6 * g
            build == ~high /\ 10 * b < 3 * g /\ 10 * r > 3 * g
            quiet == ~high /\ ~build /\ 10 * b < 2 * g /\ 10 * r < 2 * g
        IN  /\ label \in Labels4
            /\ label = "High Energy (Drop/Chorus)" <=> high
            /\ label = "Breakdown/Build" <=> build
            /\ label = "Quiet/Intro/Outro" <=> quiet
            /\ label = "Verse/Mid Energy" <=> (~high /\ ~build /\ ~quiet)
            /\ (10 * b = 6 * g \/ 10 * b = 3 * g) => label = "Verse/Mid Energy"
            /\ (10 * r = 3 * g /\ ~high) => label = "Verse/Mid Energy"
            /\ 10 * b = 7 * g => label = "High Energy (Drop/Chorus)"
            /\ (10 * b = g /\ 10 * r = 4 * g) => label = "Breakdown/Build"
            /\ (10 * b = g /\ 10 * r = g) => label = "Quiet/Intro/Outro"
            /\ (100 * b = 45 * g /\ 10 * r = 5 * g) => label = "Verse/Mid Energy"

\* C3's case: the boundary bass = 0.6 with a loud rms, labelled VerseMid
C3_Witness ==
    /\ endpoint = "SegmentLabel" /\ pc = "return"
    /\ 10 * args[1] = 6 * GridSteps
    /\ 10 * args[2] = 9 * GridSteps
    /\ result = <<"Verse/Mid Energy">>

\* the labels the key estimator emits
EstimatorLabels == {Candidates(NoteFrame({}), 0)[k].label : k \in 1..24}

CodesOf(letter) == {ToString(n) \o letter : n \in 1..12}

\* C5: each of the 24 labels the key estimator can emit maps to a code 1..12
\* followed by A or B, never to "Unknown"; a Major label gets a B code and a
\* Minor label an A code; two different canonical labels get different codes
\* (so the 24 labels hit all 24 codes); and a flat spelling maps to the code
\* of its sharp spelling ("F# Major" and "Gb Major" both to "2B").
C5_CamelotTable ==
    (endpoint = "CamelotGet" /\ pc = "return") =>
        LET first == args[1] \o " " \o args[2]
            second == args[3] \o " " \o args[4]
        IN  /\ first \in EstimatorLabels =>
                  /\ args[2] \in {"Major", "Minor"}
                  /\ result[1] # "Unknown"
                  /\ args[2] = "Major" => result[1] \in CodesOf("B")
                  /\ args[2] = "Minor" => result[1] \in CodesOf("A")
            /\ (first \in EstimatorLabels /\ second \in EstimatorLabels /\ first # second)
                  => result[1] # result[2]
            /\ (first \in EstimatorLabels /\ args[1] \in DOMAIN FlatOf
                    /\ args[3] = FlatOf[args[1]] /\ args[4] = args[2])
                  => result[2] = result[1]
            /\ (first = "F# Major" /\ second = "Gb Major") => result = <<"2B", "2B">>
            /\ Cardinality(EstimatorLabels) = 24

\* C5's case: "F# Major" and its flat spelling "Gb Major", both looked up
C5_Witness ==
    /\ endpoint = "CamelotGet" /\ pc = "return"
    /\ args = <<"F#", "Major", "Gb", "Major">>
    /\ result = <<"2B", "2B">>

\* a / b = c / d
SameFraction(x, y) == x[1] * y[2] = y[1] * x[2]

IsConstant(xs) == \A k \in 1..Len(xs) : xs[k] = xs[1]

\* C6 as stated: min-max scaling; the output of an envelope that is not
\* constant has minimum 0 and maximum 1, each element (x - min) / (max - min);
\* the output of a constant envelope, also a non-zero one, is all zeros.
C6_MinMaxScaling ==
    (endpoint = "Normalize" /\ pc = "return") =>
        LET lo == MinOf(args)
            hi == MaxOf(args)
        IN  IF IsConstant(args)
            THEN \A k \in 1..Len(args) : result[k][1] = 0
            ELSE /\ \A k \in 1..Len(args) :
                       SameFraction(result[k], <<args[k] - lo, hi - lo>>)
                 /\ \E k \in 1..Len(args) : result[k][1] = 0
                 /\ \E k \in 1..Len(args) : result[k][1] = result[k][2]

\* C6, amended: peak scaling; the output of an envelope with a positive
\* maximum is x / max(x) element by element, so its maximum is exactly 1 and
\* its minimum is min(x) / max(x), which is 0 only when the envelope reaches
\* 0; a constant positive envelope gives all ones; the all-zero envelope
\* gives all zeros.  Every output lies in [0, 1].
C6_PeakScaling ==
    (endpoint = "Normalize" /\ pc = "return") =>
        LET lo == MinOf(args)
            hi == MaxOf(args)
        IN  /\ Len(result) = Len(args)
            /\ \A k \in 1..Len(args) :
                  /\ result[k][2] > 0
                  /\ 0 <= result[k][1] /\ result[k][1] <= result[k][2]
            /\ hi > 0 =>
                  /\ \A k \in 1..Len(args) : SameFraction(result[k], <<args[k], hi>>)
                  /\ \E k \in 1..Len(args) : result[k][1] = result[k][2]
                  /\ (\E k \in 1..Len(args) : result[k][1] = 0) <=> lo = 0
            /\ (IsConstant(args) /\ hi > 0) =>
                  \A k \in 1..Len(args) : result[k][1] = result[k][2]
            /\ hi = 0 => \A k \in 1..Len(args) : result[k][1] = 0

\* C6's case: a constant envelope that is not zero, normalised to all ones
C6_Witness ==
    /\ endpoint = "Normalize" /\ pc = "return"
    /\ args = <<3, 3>>
    /\ \A k \in 1..2 : result[k][1] = result[k][2]

----------------------------------------------------------------------------
(* Claims about the request *)

\* What does hold: once the handler is in its try statement, the file is
\* removed whatever happens, and an error is a 500 with the exception's message.
TryBlockCleansUp ==
    (endpoint \in {"bpm", "key", "structure"} /\ pc = "done"
        /\ response.detail # "Internal Server Error") =>
        /\ ~temp_exists
        /\ response.status \in {200, 500}
        /\ response.status = 500 =>
              response.detail \in {"Error processing file: " \o msg : msg \in LoadErrors}

\* C10: when a request to an analysis endpoint has finished, with a result or
\* with an error response, the temporary file of the upload no longer
\* exists; an error response is a 500 whose detail carries the message of the
\* exception raised while loading or analysing.
C10_TempFileRemoved ==
    (endpoint \in {"bpm", "key", "structure"} /\ pc = "done") =>
        /\ ~temp_exists
        /\ response.status \in {200, 500}
        /\ response.status = 500 =>
              response.detail \in {"Error processing file: " \o msg : msg \in LoadErrors}

====
